---- MODULE Spec2Model ----
(***************************************************************************)
(* Batch translation engine: classifier, batcher, rate limiter, batch      *)
(* executor, scheduler, reconciler and the process around them.            *)
(*                                                                         *)
(* A JavaScript object is modelled as the sequence of its <<key, value>>   *)
(* pairs in property order: canonical array-index keys first, in ascending *)
(* numeric order, then the other string keys in insertion order.           *)
(***************************************************************************)
EXTENDS Integers, Sequences, FiniteSets, TLC

VARIABLES
  pc,             \* position of main(): "start", "loop", "finalize", "reported",
                  \* "exited"; "batching" is the loop of createBatches
  config,         \* finalConfig of processTranslation
  inputText,      \* the input file: its <<key, value>> pairs in textual order
  files,          \* storage: output file name -> [exists, data]
  toTranslate, alreadyTranslated, excludedByKey, originalKeys,
  batches,        \* result of createBatches
  loopIdx,        \* index in batches of the next iteration of the for loop
  bpc,            \* per batch: position of processBatchWithRetry
  attempt,        \* per batch: the for-loop variable of processBatchWithRetry
  wakeAt,         \* per batch: when its pending timer fires
  calls,          \* per batch: number of translateBatch calls started
  waits,          \* per batch: the backoff delays it slept, in order
  errors,         \* per batch: the messages of the errors its remote calls raised
  activeCount,    \* running functions of the pLimit instance
  successful, failed, stoppedEarly, fatalError,
  finalResult,    \* result of combineResults
  report,         \* what generateReport returned
  exitCode,       \* argument of process.exit, -1 while the process lives
  rateLimiter,    \* the module-level limiter: [requests, limits]
  now,            \* Date.now()
  history,        \* every timestamp recordRequest pushed, in order
  callerPc,       \* per limiter caller: position in simulateApiCall
  callerWake,     \* per limiter caller: when its pending timer fires
  completed       \* per limiter caller: simulated calls completed

runVars == <<pc, config, inputText, files, toTranslate, alreadyTranslated,
             excludedByKey, originalKeys, batches, loopIdx, bpc, attempt, wakeAt,
             calls, waits, errors, activeCount, successful, failed, stoppedEarly,
             fatalError, finalResult, report, exitCode>>
callerVars == <<callerPc, callerWake, completed>>
vars == <<runVars, rateLimiter, now, history, callerVars>>

-----------------------------------------------------------------------------
\* Bounds of the model.

\* Largest number of entries of an input file.
MaxEntries == 3
\* Largest configured maxRetries.
MaxAttempts == 2
\* Number of simulated calls each limiter caller makes (numRequests).
MaxCalls == 4
\* Number of concurrent callers of the limiter.
NumCallers == 2

\* Program constants.
WindowMs == 60000
BufferMs == 100
RetryDelayMs == 2000
SimulatedCallMs == 100
ExitSigint == 130
ExitSigterm == 143

-----------------------------------------------------------------------------
\* JavaScript objects.

Min(a, b) == IF a < b THEN a ELSE b
Max(a, b) == IF a > b THEN a ELSE b

\* Keys that are canonical array indices: an object lists them first, ascending.
IndexKeys == {"7", "429", "2023"}
IndexValue(k) == IF k = "7" THEN 7 ELSE IF k = "429" THEN 429 ELSE 2023
KeyUniverse == IndexKeys \cup {"Beef", "Milk"}
\* The key whose assignment on a plain object runs the setter of
\* Object.prototype instead of creating a property.
ProtoKey == "__proto__"

ObjectKeys(obj) == [i \in 1..Len(obj) |-> obj[i][1]]
HasOwnProperty(obj, k) == \E i \in 1..Len(obj) : obj[i][1] = k
GetProp(obj, k) == obj[CHOOSE i \in 1..Len(obj) : obj[i][1] = k][2]

\* CreateDataProperty(obj, k, v): what JSON.parse and Object.fromEntries do.
DefineProp(obj, k, v) ==
  IF HasOwnProperty(obj, k)
  THEN [i \in 1..Len(obj) |-> IF obj[i][1] = k THEN <<k, v>> ELSE obj[i]]
  ELSE LET p == IF k \in IndexKeys
                THEN 1 + Cardinality({i \in 1..Len(obj) :
                           /\ obj[i][1] \in IndexKeys
                           /\ IndexValue(obj[i][1]) < IndexValue(k)})
                ELSE Len(obj) + 1
       IN SubSeq(obj, 1, p - 1) \o <<(<<k, v>>)>> \o SubSeq(obj, p, Len(obj))

\* obj[k] = v on an object created by {}, v being a string: without an own
\* property "__proto__" the assignment reaches the inherited setter, which
\* ignores a value that is not an object, and nothing is stored.
SetProp(obj, k, v) ==
  IF k = ProtoKey /\ ~HasOwnProperty(obj, k) THEN obj ELSE DefineProp(obj, k, v)

\* Object.assign(obj, source): one obj[k] = v per own property of source
RECURSIVE ObjectAssign(_, _)
ObjectAssign(obj, entries) ==
  IF entries = <<>> THEN obj
  ELSE ObjectAssign(SetProp(obj, Head(entries)[1], Head(entries)[2]), Tail(entries))

\* Object.fromEntries(entries) added to obj: one CreateDataProperty per entry
RECURSIVE FromEntries(_, _)
FromEntries(obj, entries) ==
  IF entries = <<>> THEN obj
  ELSE FromEntries(DefineProp(obj, Head(entries)[1], Head(entries)[2]), Tail(entries))

\* JSON.parse of an object literal and JSON.stringify of an object.
JsonParse(text) == FromEntries(<<>>, text)
JsonStringify(obj) == obj

SeqRange(s) == {s[i] : i \in 1..Len(s)}


-----------------------------------------------------------------------------
\* Classifier and batcher.

\* value.trim() === "" for the values of the model
BlankValues == {"", " "}
needsTranslation(value) == value = "" \/ value \in BlankValues

\* The key patterns that the keys of the model meet: digits only (rule 1).
shouldExcludeKey(key) == key \in IndexKeys

RECURSIVE FilterEntriesValueFirst(_, _, _, _)
FilterEntriesValueFirst(entries, skipTranslated, enableKeyFiltering, acc) ==
  IF entries = <<>> THEN acc
  ELSE LET key == Head(entries)[1]
           value == Head(entries)[2]
           next ==
             IF skipTranslated /\ ~needsTranslation(value)
             THEN [acc EXCEPT !.alreadyTranslated = SetProp(@, key, value)]
             ELSE IF enableKeyFiltering /\ shouldExcludeKey(key)
                  THEN [acc EXCEPT !.excludedByKey = SetProp(@, key, value)]
                  ELSE [acc EXCEPT !.toTranslate = SetProp(@, key, value)]
       IN FilterEntriesValueFirst(Tail(entries), skipTranslated, enableKeyFiltering, next)
RECURSIVE FilterEntries(_, _, _, _)
FilterEntries(entries, skipTranslated, enableKeyFiltering, acc) ==
  IF entries = <<>> THEN acc
  ELSE LET key == Head(entries)[1]
           value == Head(entries)[2]
           next ==
             IF enableKeyFiltering /\ shouldExcludeKey(key)
             THEN [acc EXCEPT !.excludedByKey = SetProp(@, key, value)]
             ELSE IF skipTranslated /\ ~needsTranslation(value)
                  THEN [acc EXCEPT !.alreadyTranslated = SetProp(@, key, value)]
                  ELSE [acc EXCEPT !.toTranslate = SetProp(@, key, value)]
       IN FilterEntries(Tail(entries), skipTranslated, enableKeyFiltering, next)

filterEntriesForTranslation(jsonData, skipTranslated, enableKeyFiltering) ==
  LET parts == FilterEntries(jsonData, skipTranslated, enableKeyFiltering,
                 [toTranslate |-> <<>>, alreadyTranslated |-> <<>>,
                  excludedByKey |-> <<>>])
  IN [toTranslate |-> parts.toTranslate,
      alreadyTranslated |-> parts.alreadyTranslated,
      excludedByKey |-> parts.excludedByKey,
      originalKeys |-> ObjectKeys(jsonData),
      stats |-> [total |-> Len(jsonData),
                 needsTranslation |-> Len(parts.toTranslate),
                 alreadyTranslated |-> Len(parts.alreadyTranslated),
                 excludedByKey |-> Len(parts.excludedByKey)]]

\* The for loop of createBatches from index i (0-based), for batchSize >= 1.
RECURSIVE BatchLoop(_, _, _, _)
BatchLoop(entries, batchSize, i, acc) ==
  IF ~(i < Len(entries)) THEN acc
  ELSE LET batchEntries == SubSeq(entries, i + 1, Min(i + batchSize, Len(entries)))
       IN BatchLoop(entries, batchSize, i + batchSize,
            Append(acc, [id |-> (i \div batchSize) + 1,
                         data |-> FromEntries(<<>>, batchEntries),
                         entriesCount |-> Len(batchEntries),
                         startIndex |-> i,
                         endIndex |-> Min(i + batchSize - 1, Len(entries) - 1)]))

\* createBatches without the entries that do not fill a batch.
createBatchesFullOnly(jsonData, batchSize) ==
  IF Len(jsonData) = 0 THEN <<>>
  ELSE BatchLoop(SubSeq(jsonData, 1, Len(jsonData) - (Len(jsonData) % batchSize)),
                 batchSize, 0, <<>>)
createBatches(jsonData, batchSize) ==
  IF Len(jsonData) = 0 THEN <<>> ELSE BatchLoop(jsonData, batchSize, 0, <<>>)

\* Whether createBatches returns: it returns [] at once for no entries; its
\* loop `for (i = 0; i < entries.length; i += batchSize)` ends only when the
\* step makes i grow, and nothing in the function throws.
createBatchesReturns(jsonData, batchSize) == Len(jsonData) = 0 \/ batchSize >= 1

-----------------------------------------------------------------------------
\* Rate limiter. limits = 0 stands for a limiter without limits (null, or no rpm).

RECURSIVE FilterRecent(_, _)
\* requests.filter(timestamp => timestamp > oneMinuteAgo)
FilterRecent(requests, oneMinuteAgo) ==
  IF requests = <<>> THEN <<>>
  ELSE IF Head(requests) > oneMinuteAgo
       THEN <<Head(requests)>> \o FilterRecent(Tail(requests), oneMinuteAgo)
       ELSE FilterRecent(Tail(requests), oneMinuteAgo)

RecentRequests(rl, t) == FilterRecent(rl.requests, t - WindowMs)

SeqMin(s) == CHOOSE x \in SeqRange(s) : \A y \in SeqRange(s) : x <= y

\* The value canMakeRequest returns at time t.
canMakeRequestAtCeiling(rl, t) ==
  IF rl.limits = 0 THEN TRUE ELSE Len(RecentRequests(rl, t)) <= rl.limits
canMakeRequest(rl, t) ==
  IF rl.limits = 0 THEN TRUE ELSE Len(RecentRequests(rl, t)) < rl.limits

\* The limiter after canMakeRequest or calculateWaitTime at time t: both prune it.
Pruned(rl, t) ==
  IF rl.limits = 0 THEN rl ELSE [rl EXCEPT !.requests = RecentRequests(rl, t)]

\* The value calculateWaitTime returns at time t.
WaitTimeEarly(rl, t) ==
  IF rl.limits = 0 THEN 0
  ELSE LET recent == RecentRequests(rl, t)
       IN IF Len(recent) = 0 THEN 0
          ELSE IF Len(recent) < rl.limits THEN 0
               ELSE Max(0, SeqMin(recent) + WindowMs - t - BufferMs)
calculateWaitTime(rl, t) ==
  IF rl.limits = 0 THEN 0
  ELSE LET recent == RecentRequests(rl, t)
       IN IF Len(recent) = 0 THEN 0
          ELSE IF Len(recent) < rl.limits THEN 0
               ELSE Max(0, SeqMin(recent) + WindowMs - t + BufferMs)

\* The limiter after recordRequest at time t.
recordRequestNothing(rl, t) == rl
recordRequest(rl, t) ==
  IF rl.limits # 0 THEN [rl EXCEPT !.requests = Append(@, t)] ELSE rl

\* Number of recorded requests in the 60 seconds that end at time t.
InWindow(h, t) == Cardinality({i \in 1..Len(h) : h[i] > t - WindowMs /\ h[i] <= t})

-----------------------------------------------------------------------------
\* Remote call, error classification and the outcomes of the batch executor.

\* A message is the sequence of the pieces of text it is concatenated from: fixed
\* texts, keys of a batch, pieces of a response. message.includes(marker) holds
\* when one of the pieces is the marker; no other piece of the model contains one.
Includes(message, marker) == \E i \in 1..Len(message) : message[i] = marker

\* Identifying signals of the errors the remote call raises.
ErrorSignals == {"RATE_LIMIT_EXCEEDED", "429", "QUOTA_EXCEEDED", "INVALID_API_KEY",
                 "CONTENT_FILTER", "MODEL_NOT_FOUND", "INTERNAL", "fetch failed"}
\* The message of the error the remote call raises with a signal.
ApiError(signal) == <<signal>>

\* The processed error translateBatch throws for a caught error with this message.
handleGeminiErrorRetriesRateLimit(message) ==
  IF Includes(message, "QUOTA_EXCEEDED") \/ Includes(message, "INVALID_API_KEY")
     \/ Includes(message, "MODEL_NOT_FOUND")
  THEN [message |-> message, isFatal |-> TRUE, shouldStop |-> TRUE]
  ELSE [message |-> message, isFatal |-> FALSE, shouldStop |-> FALSE]
handleGeminiError(message) ==
  IF Includes(message, "RATE_LIMIT_EXCEEDED") \/ Includes(message, "429")
  THEN [message |-> <<"Limite de tasa excedido en la API de Gemini">>,
        isFatal |-> TRUE, shouldStop |-> TRUE]
  ELSE IF Includes(message, "QUOTA_EXCEEDED")
  THEN [message |-> <<"Cuota de la API de Gemini excedida">>,
        isFatal |-> TRUE, shouldStop |-> TRUE]
  ELSE IF Includes(message, "INVALID_API_KEY")
  THEN [message |-> <<"API key de Gemini invalida">>,
        isFatal |-> TRUE, shouldStop |-> TRUE]
  ELSE IF Includes(message, "CONTENT_FILTER")
  THEN [message |-> <<"Contenido bloqueado por los filtros de seguridad de Gemini">>,
        isFatal |-> FALSE, shouldStop |-> FALSE]
  ELSE IF Includes(message, "MODEL_NOT_FOUND")
  THEN [message |-> <<"Modelo de Gemini no encontrado">>,
        isFatal |-> TRUE, shouldStop |-> TRUE]
  ELSE IF Includes(message, "INTERNAL")
  THEN [message |-> <<"Error interno del servidor de Gemini">>,
        isFatal |-> FALSE, shouldStop |-> FALSE]
  ELSE [message |-> message, isFatal |-> FALSE, shouldStop |-> FALSE]

\* The translation of a value, and the data translateBatch resolves with: the
\* keys of the batch, each with the string the response gives for it.
Translated == "es"
TranslatedData(batchData) ==
  ObjectAssign(<<>>, [i \in 1..Len(batchData) |-> <<batchData[i][1], Translated>>])

\* A value of a parsed response: a string with its text, or something else.
StringValue(t) == [string |-> TRUE, text |-> t]
NumberValue == [string |-> FALSE, text |-> "1"]
\* A response text: JSON of an object with these entries, JSON of something that
\* is not an object, or a text JSON.parse rejects; quoted is what the message
\* of the SyntaxError carries of it: a piece of the text, or the position.
ObjectResponse(entries) == [kind |-> "object", entries |-> entries, quoted |-> <<>>]
ArrayResponse == [kind |-> "array", entries |-> <<>>, quoted |-> <<>>]
TextResponse(quoted) == [kind |-> "text", entries |-> <<>>, quoted |-> quoted]

\* The responses of the model to a batch: every key translated, every key
\* blank, an extra key, the first key missing, a number for the first key, an
\* array, two texts that are not JSON, and the keys in reverse order, each with
\* its own name as value.
Responses(batchData) ==
  LET keys == ObjectKeys(batchData)
      good == [i \in 1..Len(keys) |-> <<keys[i], StringValue(Translated)>>]
  IN {ObjectResponse(good),
      ObjectResponse([i \in 1..Len(keys) |->
                        <<keys[Len(keys) + 1 - i], StringValue(keys[Len(keys) + 1 - i])>>]),
      ObjectResponse([i \in 1..Len(keys) |-> <<keys[i], StringValue("")>>]),
      ObjectResponse(Append(good, <<"Extra", StringValue(Translated)>>)),
      ObjectResponse(Tail(good)),
      ObjectResponse([good EXCEPT ![1] = <<keys[1], NumberValue>>]),
      ArrayResponse, TextResponse(<<>>), TextResponse(<<"429">>)}

\* First texts of the messages validateAndParseResponse throws.
InvalidJsonText == "JSON invalido en la respuesta de Gemini: "
NotAnObjectText == "La respuesta no es un objeto JSON valido"
MissingKeysText == "Faltan las siguientes claves en la respuesta: "
NotAStringText == "El valor para la clave "

ValidationFailed(message) == [ok |-> FALSE, data |-> <<>>, message |-> message]

\* What validateAndParseResponse returns, or the message of what it throws.
validateAndParseResponseUnfiltered(response, originalBatch) ==
  IF response.kind = "text"
  THEN ValidationFailed(<<InvalidJsonText, "Unexpected token">> \o response.quoted)
  ELSE IF response.kind # "object"
  THEN ValidationFailed(<<NotAnObjectText>>)
  ELSE LET parsedResponse == JsonParse(response.entries)
           keys == ObjectKeys(originalBatch)
           missingKeys == SelectSeq(keys, LAMBDA k : ~HasOwnProperty(parsedResponse, k))
       IN IF missingKeys # <<>>
          THEN ValidationFailed(<<MissingKeysText>> \o missingKeys)
          ELSE [ok |-> TRUE,
                data |-> [i \in 1..Len(parsedResponse) |->
                            <<parsedResponse[i][1], parsedResponse[i][2].text>>],
                message |-> <<>>]
validateAndParseResponse(response, originalBatch) ==
  IF response.kind = "text"
  THEN ValidationFailed(<<InvalidJsonText, "Unexpected token">> \o response.quoted)
  ELSE IF response.kind # "object"
  THEN ValidationFailed(<<NotAnObjectText>>)
  ELSE LET parsedResponse == JsonParse(response.entries)
           keys == ObjectKeys(originalBatch)
           missingKeys == SelectSeq(keys, LAMBDA k : ~HasOwnProperty(parsedResponse, k))
       IN IF missingKeys # <<>>
          THEN ValidationFailed(<<MissingKeysText>> \o missingKeys)
          ELSE LET filteredResponse ==
                     ObjectAssign(<<>>, [i \in 1..Len(keys) |->
                                           <<keys[i], GetProp(parsedResponse, keys[i])>>])
                   notStrings == {i \in 1..Len(filteredResponse) :
                                    ~filteredResponse[i][2].string}
               IN IF notStrings # {}
                  THEN ValidationFailed(
                         <<NotAStringText,
                           filteredResponse[CHOOSE i \in notStrings :
                                              \A j \in notStrings : i <= j][1],
                           " no es un string">>)
                  ELSE [ok |-> TRUE,
                        data |-> [i \in 1..Len(filteredResponse) |->
                                    <<filteredResponse[i][1], filteredResponse[i][2].text>>],
                        message |-> <<>>]

SkippedMessage == <<"Procesamiento detenido por error fatal anterior">>
UnexpectedMessage == <<"Cannot read properties of undefined">>

\* Outcome records; a field the code leaves out is FALSE (undefined) here.
SuccessResult(batch, n) ==
  [success |-> TRUE, batchId |-> batch.id, data |-> TranslatedData(batch.data),
   attempts |-> n]
FailedResult(batch, message, n, fatal, stop, skip) ==
  [success |-> FALSE, batchId |-> batch.id, error |-> message, attempts |-> n,
   isFatal |-> fatal, shouldStopProcessing |-> stop, skipped |-> skip]
\* What processBatchWithRetry returns when the error of attempt n has shouldStop.
FatalResultNoStop(batch, err, n) ==
  FailedResult(batch, err.message, n, TRUE, FALSE, FALSE)
FatalResultNoAttempts(batch, err, n) ==
  FailedResult(batch, err.message, 0, TRUE, TRUE, FALSE)
FatalResult(batch, err, n) ==
  FailedResult(batch, err.message, n, TRUE, TRUE, FALSE)
\* What it returns after maxRetries failed attempts, lastError being err.
ExhaustedResultCountsRetries(batch, err, maxRetries) ==
  FailedResult(batch, err.message, maxRetries - 1, err.isFatal, err.shouldStop, FALSE)
ExhaustedResult(batch, err, maxRetries) ==
  FailedResult(batch, err.message, maxRetries, err.isFatal, err.shouldStop, FALSE)
\* What the for loop of the scheduler pushes for a batch after stoppedEarly.
SkippedResult(batch) == FailedResult(batch, SkippedMessage, 0, FALSE, FALSE, TRUE)
\* What its catch block pushes when the executor throws.
UnexpectedResult(batch) == FailedResult(batch, UnexpectedMessage, 0, FALSE, FALSE, FALSE)

\* retryDelay * Math.pow(2, attempt - 1)
BackoffDelayFromZero(retryDelay, n) == retryDelay * 2 ^ n
BackoffDelayConstant(retryDelay, n) == retryDelay
BackoffDelay(retryDelay, n) == retryDelay * 2 ^ (n - 1)

-----------------------------------------------------------------------------
\* Reconciler, report and persistence.

\* successfulResults.sort((a, b) => a.batchId - b.batchId), ids being distinct
RECURSIVE SortByBatchId(_)
SortByBatchId(results) ==
  IF results = <<>> THEN <<>>
  ELSE LET i == CHOOSE i \in 1..Len(results) :
                  \A j \in 1..Len(results) : results[i].batchId <= results[j].batchId
       IN <<results[i]>> \o
          SortByBatchId(SubSeq(results, 1, i - 1) \o SubSeq(results, i + 1, Len(results)))

RECURSIVE AssignEach(_, _)
AssignEach(obj, results) ==
  IF results = <<>> THEN obj
  ELSE AssignEach(ObjectAssign(obj, Head(results).data), Tail(results))

assembleResultsFirstOnly(successfulResults) ==
  IF Len(successfulResults) = 0 THEN <<>>
  ELSE AssignEach(<<>>, <<SortByBatchId(successfulResults)[1]>>)
assembleResults(successfulResults) ==
  IF Len(successfulResults) = 0 THEN <<>>
  ELSE AssignEach(<<>>, SortByBatchId(successfulResults))

\* originalKeys.forEach(key => { if (all.hasOwnProperty(key)) combined[key] = all[key] })
RECURSIVE Rebuild(_, _, _)
Rebuild(keys, all, combined) ==
  IF keys = <<>> THEN combined
  ELSE Rebuild(Tail(keys), all,
               IF HasOwnProperty(all, Head(keys))
               THEN SetProp(combined, Head(keys), GetProp(all, Head(keys)))
               ELSE combined)

CombineInsertionOrder(newTranslations, already, excluded, keys) ==
  LET all == ObjectAssign(ObjectAssign(ObjectAssign(<<>>, excluded), already),
                          newTranslations)
  IN [result |-> all,
      stats |-> [excludedByKey |-> Len(excluded), alreadyTranslated |-> Len(already),
                 newTranslations |-> Len(newTranslations), total |-> Len(all)]]
combineResults(newTranslations, already, excluded, keys) ==
  LET all == ObjectAssign(ObjectAssign(ObjectAssign(<<>>, excluded), already),
                          newTranslations)
      combined == Rebuild(keys, all, <<>>)
  IN [result |-> combined,
      stats |-> [excludedByKey |-> Len(excluded), alreadyTranslated |-> Len(already),
                 newTranslations |-> Len(newTranslations), total |-> Len(combined)]]

\* File names are sequences of segments; ".json" is one segment.
OutputNames == {<<"out", ".json">>, <<"out", ".txt">>}

\* outputFile.replace(/(\.json)$/, "_partial$1")
partialOutputFile(outputFile) ==
  IF Len(outputFile) > 0 /\ outputFile[Len(outputFile)] = ".json"
  THEN SubSeq(outputFile, 1, Len(outputFile) - 1) \o <<"_partial", ".json">>
  ELSE outputFile

FileNames == OutputNames \cup {partialOutputFile(n) : n \in OutputNames}
NoFile == [exists |-> FALSE, data |-> <<>>]

\* writeJsonFile(filePath, data) on the storage fs
writeJsonFile(fs, filePath, data) ==
  [fs EXCEPT ![filePath] = [exists |-> TRUE, data |-> JsonStringify(data)]]

\* Step 8 of processTranslation: where the merged result goes.
SaveNothingOnHalt(fs, halted, outputFile, result) ==
  IF halted THEN fs
  ELSE IF Len(result) > 0 THEN writeJsonFile(fs, outputFile, result) ELSE fs
SaveResult(fs, halted, outputFile, result) ==
  IF halted
  THEN IF Len(result) > 0
       THEN writeJsonFile(fs, partialOutputFile(outputFile), result) ELSE fs
  ELSE IF Len(result) > 0 THEN writeJsonFile(fs, outputFile, result) ELSE fs

RECURSIVE SumEntries(_)
SumEntries(results) ==
  IF results = <<>> THEN 0 ELSE Len(Head(results).data) + SumEntries(Tail(results))

\* (a / b * 100).toFixed(2), in hundredths of a percent
Percent2(a, b) == ((((a * 100000) \div b) + 5) \div 10)

generateReport(results, totalBatches, filterStats, combineStats) ==
  [totalBatches |-> totalBatches,
   successfulBatches |-> Len(results.successful),
   failedBatches |-> Len(results.failed),
   entriesNeedingTranslation |-> filterStats.needsTranslation,
   successfulNewTranslations |-> SumEntries(results.successful),
   failedTranslations |-> filterStats.needsTranslation - SumEntries(results.successful),
   finalResultEntries |-> combineStats.total,
   stoppedEarly |-> results.stoppedEarly,
   fatalError |-> results.fatalError,
   totalEntries |-> filterStats.total,
   successfulEntries |-> combineStats.total,
   entriesSuccessRate |->
     IF filterStats.total > 0 THEN Percent2(combineStats.total, filterStats.total) ELSE 0,
   successful |-> [i \in 1..Len(results.successful) |->
                     [batchId |-> results.successful[i].batchId,
                      entriesCount |-> Len(results.successful[i].data),
                      attempts |-> results.successful[i].attempts]],
   failed |-> [i \in 1..Len(results.failed) |->
                 [batchId |-> results.failed[i].batchId,
                  error |-> results.failed[i].error,
                  attempts |-> results.failed[i].attempts,
                  skipped |-> results.failed[i].skipped]]]

\* The exit status main() derives from the report.
ExitStatus(rep) ==
  IF rep.entriesSuccessRate >= 9000 THEN 0
  ELSE IF rep.entriesSuccessRate >= 5000 THEN 2 ELSE 3

-----------------------------------------------------------------------------
\* A run of the program: main() from the registration of the signal handlers.

\* The entries an input file is made of: each key with the values it may have.
InputEntries == {<<"7", "">>, <<"2023", "ya">>, <<"Beef", "">>, <<"Milk", "">>,
                 <<"Milk", "ya">>}
InputFiles ==
  UNION {{t \in [1..n -> InputEntries] :
            \A i, j \in 1..n : i # j => t[i][1] # t[j][1]} : n \in 0..MaxEntries}

BatchSizes == {1, 2}
ConcurrencyLimits == {1, 2}
RpmChoices == {1}
\* The errors the remote call raises in a run.
RunErrors == {"QUOTA_EXCEEDED", "INTERNAL"}

\* rpm is the ceiling the limits file gives; 0 when the limiter is not used.
Configs ==
  {c \in [batchSize : BatchSizes, concurrencyLimit : ConcurrencyLimits,
          maxRetries : 0..MaxAttempts, retryDelay : {RetryDelayMs},
          outputFile : OutputNames, skipTranslated : BOOLEAN,
          enableKeyFiltering : BOOLEAN, respectRateLimits : BOOLEAN,
          rpm : RpmChoices \cup {0}] :
     c.respectRateLimits <=> c.rpm # 0}

BatchIds == 1..MaxEntries
NoReport == [stoppedEarly |-> FALSE, totalBatches |-> -1]
NoLimiter == [requests |-> <<>>, limits |-> 0]

InitCallers ==
  /\ callerPc = [c \in {} |-> "idle"]
  /\ callerWake = [c \in {} |-> 0]
  /\ completed = [c \in {} |-> 0]

Init ==
  /\ pc = "start"
  /\ config \in Configs
  /\ inputText \in InputFiles
  /\ files = [n \in FileNames |-> NoFile]
  /\ toTranslate = <<>> /\ alreadyTranslated = <<>> /\ excludedByKey = <<>>
  /\ originalKeys = <<>>
  /\ batches = <<>>
  /\ loopIdx = 1
  /\ bpc = [b \in BatchIds |-> "pending"]
  /\ attempt = [b \in BatchIds |-> 0]
  /\ wakeAt = [b \in BatchIds |-> 0]
  /\ calls = [b \in BatchIds |-> 0]
  /\ waits = [b \in BatchIds |-> <<>>]
  /\ errors = [b \in BatchIds |-> <<>>]
  /\ activeCount = 0
  /\ successful = <<>> /\ failed = <<>>
  /\ stoppedEarly = FALSE /\ fatalError = <<>>
  /\ finalResult = <<>>
  /\ report = NoReport
  /\ exitCode = -1
  /\ rateLimiter = NoLimiter
  /\ now = 0
  /\ history = <<>>
  /\ InitCallers

\* processTranslation, steps 0 to 4: limiter, input, classifier, batcher.
\* jsonData and f are the values the code computes once and keeps in a const.
StartRun ==
  /\ pc = "start"
  /\ \E jsonData \in {JsonParse(inputText)} :
     \E f \in {filterEntriesForTranslation(jsonData,
                 config.skipTranslated, config.enableKeyFiltering)} :
        /\ toTranslate' = f.toTranslate
        /\ alreadyTranslated' = f.alreadyTranslated
        /\ excludedByKey' = f.excludedByKey
        /\ originalKeys' = f.originalKeys
        /\ IF createBatchesReturns(f.toTranslate, config.batchSize)
           THEN /\ batches' = createBatches(f.toTranslate, config.batchSize)
                /\ pc' = "loop"
           ELSE /\ batches' = batches
                /\ pc' = "batching"
  /\ rateLimiter' = IF config.respectRateLimits
                    THEN [requests |-> <<>>, limits |-> config.rpm]
                    ELSE rateLimiter
  /\ loopIdx' = 1
  /\ UNCHANGED <<config, inputText, files, bpc, attempt, wakeAt, calls, waits, errors,
                 activeCount, successful, failed, stoppedEarly, fatalError,
                 finalResult, report, exitCode, now, history, callerVars>>

\* Batches whose executor has been started and has not returned.
Running == {b \in BatchIds : bpc[b] \in {"ready", "ratewait", "calling", "backoff"}}
\* Batches whose remote call is in flight.
InFlight == {b \in BatchIds : bpc[b] = "calling"}

\* `await limit(() => processBatchWithRetry(...))`: the loop goes on to a batch
\* only when the batch before has returned and the pool has a free slot.
DispatchUnbounded == TRUE
DispatchNever == FALSE
DispatchAllowed == Running = {} /\ activeCount < config.concurrencyLimit

\* One iteration of the for loop up to its await.
LoopStep ==
  /\ pc = "loop"
  /\ loopIdx <= Len(batches)
  /\ DispatchAllowed
  /\ LET batch == batches[loopIdx]
     IN IF stoppedEarly
        THEN /\ failed' = Append(failed, SkippedResult(batch))
             /\ loopIdx' = loopIdx + 1
             /\ UNCHANGED <<bpc, attempt, activeCount>>
        ELSE IF config.maxRetries < 1
        THEN \* the executor reads lastError.message of undefined and throws
             /\ failed' = Append(failed, UnexpectedResult(batch))
             /\ loopIdx' = loopIdx + 1
             /\ bpc' = [bpc EXCEPT ![batch.id] = "returned"]
             /\ UNCHANGED <<attempt, activeCount>>
        ELSE /\ bpc' = [bpc EXCEPT ![batch.id] = "ready"]
             /\ attempt' = [attempt EXCEPT ![batch.id] = 1]
             /\ activeCount' = activeCount + 1
             /\ loopIdx' = loopIdx + 1
             /\ UNCHANGED failed
  /\ UNCHANGED <<pc, config, inputText, files, toTranslate, alreadyTranslated,
                 excludedByKey, originalKeys, batches, wakeAt, calls, waits, errors,
                 successful, stoppedEarly, fatalError, finalResult, report,
                 exitCode, rateLimiter, now, history, callerVars>>

\* An attempt of the executor up to its first await: the wait for the limiter
\* when the limiter has limits, the remote call otherwise.
BeginAttempt(b) ==
  /\ pc = "loop"
  /\ bpc[b] = "ready"
  /\ IF rateLimiter.limits # 0
     THEN /\ wakeAt' = [wakeAt EXCEPT ![b] = now + calculateWaitTime(rateLimiter, now)]
          /\ rateLimiter' = Pruned(rateLimiter, now)
          /\ bpc' = [bpc EXCEPT ![b] = "ratewait"]
          /\ UNCHANGED calls
     ELSE /\ bpc' = [bpc EXCEPT ![b] = "calling"]
          /\ calls' = [calls EXCEPT ![b] = @ + 1]
          /\ UNCHANGED <<wakeAt, rateLimiter>>
  /\ UNCHANGED <<pc, config, inputText, files, toTranslate, alreadyTranslated,
                 excludedByKey, originalKeys, batches, loopIdx, attempt, waits, errors,
                 activeCount, successful, failed, stoppedEarly, fatalError,
                 finalResult, report, exitCode, now, history, callerVars>>

\* waitForRateLimit resolves; recordRequest; translateBatch is called.
RateLimitPassedNoRecord(b) ==
  /\ pc = "loop"
  /\ bpc[b] = "ratewait"
  /\ now' = Max(now, wakeAt[b])
  /\ bpc' = [bpc EXCEPT ![b] = "calling"]
  /\ calls' = [calls EXCEPT ![b] = @ + 1]
  /\ UNCHANGED <<pc, config, inputText, files, toTranslate, alreadyTranslated,
                 excludedByKey, originalKeys, batches, loopIdx, attempt, wakeAt,
                 waits, errors, activeCount, successful, failed, stoppedEarly, fatalError,
                 finalResult, report, exitCode, rateLimiter, history, callerVars>>
RateLimitPassed(b) ==
  /\ pc = "loop"
  /\ bpc[b] = "ratewait"
  /\ now' = Max(now, wakeAt[b])
  /\ rateLimiter' = recordRequest(rateLimiter, now')
  /\ history' = Append(history, now')
  /\ bpc' = [bpc EXCEPT ![b] = "calling"]
  /\ calls' = [calls EXCEPT ![b] = @ + 1]
  /\ UNCHANGED <<pc, config, inputText, files, toTranslate, alreadyTranslated,
                 excludedByKey, originalKeys, batches, loopIdx, attempt, wakeAt,
                 waits, errors, activeCount, successful, failed, stoppedEarly, fatalError,
                 finalResult, report, exitCode, callerVars>>


\* The executor returns result r for batch b and the loop body handles it: the
\* lists, and on shouldStopProcessing the flag, the message and the break.
HandleResultLosesFailure(b, r) ==
  /\ bpc' = [bpc EXCEPT ![b] = "returned"]
  /\ activeCount' = activeCount - 1
  /\ successful' = IF r.success THEN Append(successful, r) ELSE successful
  /\ UNCHANGED <<failed, stoppedEarly, fatalError, pc>>
HandleResult(b, r) ==
  /\ bpc' = [bpc EXCEPT ![b] = "returned"]
  /\ activeCount' = activeCount - 1
  /\ IF r.success
     THEN /\ successful' = Append(successful, r)
          /\ UNCHANGED <<failed, stoppedEarly, fatalError, pc>>
     ELSE /\ failed' = Append(failed, r)
          /\ UNCHANGED successful
          /\ IF r.shouldStopProcessing
             THEN /\ stoppedEarly' = TRUE
                  /\ fatalError' = r.error
                  /\ pc' = "finalize"
             ELSE UNCHANGED <<stoppedEarly, fatalError, pc>>

\* translateBatch resolves with the translated data.
RemoteSucceeds(b) ==
  /\ pc = "loop"
  /\ bpc[b] = "calling"
  /\ HandleResult(b, SuccessResult(batches[b], attempt[b]))
  /\ UNCHANGED <<config, inputText, files, toTranslate, alreadyTranslated,
                 excludedByKey, originalKeys, batches, loopIdx, attempt, wakeAt,
                 calls, waits, errors, finalResult, report, exitCode, rateLimiter, now,
                 history, callerVars>>

\* translateBatch rejects: its catch block processed an error with this
\* message, and the catch block of the executor handles the processed error.
RemoteFails(b, message) ==
  /\ pc = "loop"
  /\ bpc[b] = "calling"
  /\ errors' = [errors EXCEPT ![b] = Append(@, message)]
  /\ LET err == handleGeminiError(message)
     IN IF err.shouldStop
        THEN /\ HandleResult(b, FatalResult(batches[b], err, attempt[b]))
             /\ UNCHANGED <<wakeAt, waits>>
        ELSE IF attempt[b] < config.maxRetries
        THEN /\ bpc' = [bpc EXCEPT ![b] = "backoff"]
             /\ wakeAt' = [wakeAt EXCEPT
                             ![b] = now + BackoffDelay(config.retryDelay, attempt[b])]
             /\ waits' = [waits EXCEPT
                            ![b] = Append(@, BackoffDelay(config.retryDelay, attempt[b]))]
             /\ UNCHANGED <<activeCount, successful, failed, stoppedEarly,
                            fatalError, pc>>
        ELSE /\ HandleResult(b, ExhaustedResult(batches[b], err, config.maxRetries))
             /\ UNCHANGED <<wakeAt, waits>>
  /\ UNCHANGED <<config, inputText, files, toTranslate, alreadyTranslated,
                 excludedByKey, originalKeys, batches, loopIdx, attempt, calls,
                 finalResult, report, exitCode, rateLimiter, now, history, callerVars>>

\* The remote call answers with a response: translateBatch resolves with the
\* validated data, or rejects with the error of the validation.
RemoteResponds(b, response) ==
  /\ pc = "loop"
  /\ bpc[b] = "calling"
  /\ LET v == validateAndParseResponse(response, batches[b].data)
     IN IF v.ok
        THEN /\ HandleResult(b, [success |-> TRUE, batchId |-> batches[b].id,
                                 data |-> v.data, attempts |-> attempt[b]])
             /\ UNCHANGED <<config, inputText, files, toTranslate,
                            alreadyTranslated, excludedByKey, originalKeys, batches,
                            loopIdx, attempt, wakeAt, calls, waits, errors,
                            finalResult, report, exitCode, rateLimiter, now,
                            history, callerVars>>
        ELSE RemoteFails(b, v.message)

\* The backoff timer fires and the for loop of the executor goes on.
BackoffDone(b) ==
  /\ pc = "loop"
  /\ bpc[b] = "backoff"
  /\ now' = Max(now, wakeAt[b])
  /\ attempt' = [attempt EXCEPT ![b] = @ + 1]
  /\ bpc' = [bpc EXCEPT ![b] = "ready"]
  /\ UNCHANGED <<pc, config, inputText, files, toTranslate, alreadyTranslated,
                 excludedByKey, originalKeys, batches, loopIdx, wakeAt, calls,
                 waits, errors, activeCount, successful, failed, stoppedEarly, fatalError,
                 finalResult, report, exitCode, rateLimiter, history, callerVars>>

\* The for loop ends after the last batch.
LoopEnd ==
  /\ pc = "loop"
  /\ loopIdx > Len(batches)
  /\ Running = {}
  /\ pc' = "finalize"
  /\ UNCHANGED <<config, inputText, files, toTranslate, alreadyTranslated,
                 excludedByKey, originalKeys, batches, loopIdx, bpc, attempt,
                 wakeAt, calls, waits, errors, activeCount, successful, failed,
                 stoppedEarly, fatalError, finalResult, report, exitCode,
                 rateLimiter, now, history, callerVars>>

\* processTranslation, steps 6 to 9: assemble, combine, save, report.
Finalize ==
  /\ pc = "finalize"
  /\ \E sorted \in {SortByBatchId(successful)} :
     \E assembled \in {assembleResults(successful)} :
     \E combined \in {combineResults(assembled, alreadyTranslated,
                                     excludedByKey, originalKeys)} :
        /\ successful' = sorted
        /\ finalResult' = combined.result
        /\ files' = SaveResult(files, stoppedEarly, config.outputFile, combined.result)
        /\ report' = generateReport(
                       [successful |-> sorted, failed |-> failed,
                        stoppedEarly |-> stoppedEarly, fatalError |-> fatalError],
                       Len(batches),
                       [total |-> Len(originalKeys),
                        needsTranslation |-> Len(toTranslate),
                        alreadyTranslated |-> Len(alreadyTranslated),
                        excludedByKey |-> Len(excludedByKey)],
                       combined.stats)
  /\ pc' = "reported"
  /\ UNCHANGED <<config, inputText, toTranslate, alreadyTranslated, excludedByKey,
                 originalKeys, batches, loopIdx, bpc, attempt, wakeAt, calls, waits, errors,
                 activeCount, failed, stoppedEarly, fatalError, exitCode,
                 rateLimiter, now, history, callerVars>>

\* main() leaves with the status of the report.
Exit ==
  /\ pc = "reported"
  /\ exitCode' = ExitStatus(report)
  /\ pc' = "exited"
  /\ UNCHANGED <<config, inputText, files, toTranslate, alreadyTranslated,
                 excludedByKey, originalKeys, batches, loopIdx, bpc, attempt,
                 wakeAt, calls, waits, errors, activeCount, successful, failed,
                 stoppedEarly, fatalError, finalResult, report, rateLimiter, now,
                 history, callerVars>>

\* SIGINT or SIGTERM: the handler calls handleExit, which ends the process.
Signal(code) ==
  /\ pc # "exited"
  /\ exitCode' = code
  /\ pc' = "exited"
  /\ UNCHANGED <<config, inputText, files, toTranslate, alreadyTranslated,
                 excludedByKey, originalKeys, batches, loopIdx, bpc, attempt,
                 wakeAt, calls, waits, errors, activeCount, successful, failed,
                 stoppedEarly, fatalError, finalResult, report, rateLimiter, now,
                 history, callerVars>>

Next ==
  \/ StartRun
  \/ LoopStep
  \/ \E b \in BatchIds : BeginAttempt(b)
  \/ \E b \in BatchIds : RateLimitPassed(b)
  \/ \E b \in BatchIds : RemoteSucceeds(b)
  \/ \E b \in BatchIds, sig \in RunErrors : RemoteFails(b, ApiError(sig))
  \/ \E b \in BatchIds : BackoffDone(b)
  \/ LoopEnd
  \/ Finalize
  \/ Exit

Spec == Init /\ [][Next]_vars

\* The run with the signals the handlers of main() catch.
NextSignals ==
  \/ Next
  \/ \E code \in {ExitSigint, ExitSigterm} : Signal(code)

SpecSignals == Init /\ [][NextSignals]_vars

-----------------------------------------------------------------------------
\* The limiter under the callers of the rate-limit test: each caller runs
\* simulateApiCall MaxCalls times, one call after the other.

CeilingChoices == {1, 2}
\* How late after its due time a timer may fire, in ms.
TimerLateness == {0, 1, 30000}

TestConfig ==
  [batchSize |-> 1, concurrencyLimit |-> 1, maxRetries |-> 1,
   retryDelay |-> RetryDelayMs, outputFile |-> <<"out", ".json">>,
   skipTranslated |-> TRUE, enableKeyFiltering |-> TRUE,
   respectRateLimits |-> TRUE, rpm |-> 0]

\* No run of processTranslation is going on.
NoRun ==
  /\ pc = "test"
  /\ config = TestConfig
  /\ inputText = <<>>
  /\ files = [n \in FileNames |-> NoFile]
  /\ toTranslate = <<>> /\ alreadyTranslated = <<>> /\ excludedByKey = <<>>
  /\ originalKeys = <<>>
  /\ batches = <<>>
  /\ loopIdx = 1
  /\ bpc = [b \in BatchIds |-> "pending"]
  /\ attempt = [b \in BatchIds |-> 0]
  /\ wakeAt = [b \in BatchIds |-> 0]
  /\ calls = [b \in BatchIds |-> 0]
  /\ waits = [b \in BatchIds |-> <<>>]
  /\ errors = [b \in BatchIds |-> <<>>]
  /\ activeCount = 0
  /\ successful = <<>> /\ failed = <<>>
  /\ stoppedEarly = FALSE /\ fatalError = <<>>
  /\ finalResult = <<>>
  /\ report = NoReport
  /\ exitCode = -1

\* The state after initializeRateLimiter, with the given callers about to start.
InitLimiter(callers) ==
  /\ NoRun
  /\ \E r \in CeilingChoices : rateLimiter = [requests |-> <<>>, limits |-> r]
  /\ now = 0
  /\ history = <<>>
  /\ callerPc = [c \in callers |-> "idle"]
  /\ callerWake = [c \in callers |-> 0]
  /\ completed = [c \in callers |-> 0]

\* waitForRateLimit up to its await: the wait time is computed and the timer set.
CallerCheck(c) ==
  /\ callerPc[c] = "idle"
  /\ completed[c] < MaxCalls
  /\ callerWake' = [callerWake EXCEPT ![c] = now + calculateWaitTime(rateLimiter, now)]
  /\ rateLimiter' = Pruned(rateLimiter, now)
  /\ callerPc' = [callerPc EXCEPT ![c] = "waiting"]
  /\ UNCHANGED <<runVars, now, history, completed>>

\* waitForRateLimit has resolved: recordRequest, then the simulated processing.
CallerRecord(c) ==
  /\ callerPc[c] = "waiting"
  /\ now >= callerWake[c]
  /\ rateLimiter' = recordRequest(rateLimiter, now)
  /\ history' = Append(history, now)
  /\ callerWake' = [callerWake EXCEPT ![c] = now + SimulatedCallMs]
  /\ callerPc' = [callerPc EXCEPT ![c] = "processing"]
  /\ UNCHANGED <<runVars, now, completed>>

\* The simulated call completes; getRateLimiterStatus prunes the window.
CallerDone(c) ==
  /\ callerPc[c] = "processing"
  /\ now >= callerWake[c]
  /\ completed' = [completed EXCEPT ![c] = @ + 1]
  /\ rateLimiter' = Pruned(rateLimiter, now)
  /\ callerPc' = [callerPc EXCEPT ![c] = "idle"]
  /\ UNCHANGED <<runVars, now, history, callerWake>>

\* Callers that sleep on a timer that is not due yet.
Sleeping == {c \in DOMAIN callerPc :
               callerPc[c] \in {"waiting", "processing"} /\ callerWake[c] > now}

\* Time passes up to the next timer, which may fire late. No caller that is
\* ready to run is kept waiting.
TimerFires(late) ==
  /\ Sleeping # {}
  /\ \A c \in DOMAIN callerPc : callerPc[c] \in {"waiting", "processing"} => c \in Sleeping
  /\ LET due == CHOOSE t \in {callerWake[c] : c \in Sleeping} :
                  \A c \in Sleeping : t <= callerWake[c]
     IN now' = due + late
  /\ UNCHANGED <<runVars, rateLimiter, history, callerVars>>

NextLimiter ==
  \/ \E c \in DOMAIN callerPc : CallerCheck(c)
  \/ \E c \in DOMAIN callerPc : CallerRecord(c)
  \/ \E c \in DOMAIN callerPc : CallerDone(c)
  \/ \E late \in TimerLateness : TimerFires(late)

\* One sequential caller.
InitSequential == InitLimiter({1})
SpecSequential == InitSequential /\ [][NextLimiter]_vars

\* Several callers started together.
InitConcurrent == InitLimiter(1..NumCallers)
SpecConcurrent == InitConcurrent /\ [][NextLimiter]_vars

-----------------------------------------------------------------------------
\* The reconciler on its own: the batches of an input complete in any order,
\* some of them successfully, and the results are assembled and combined.

InitReconciler ==
  /\ pc = "classify"
  /\ config \in {c \in Configs : c.maxRetries = 1 /\ c.concurrencyLimit = 1
                                 /\ ~c.respectRateLimits
                                 /\ c.outputFile = <<"out", ".json">>}
  /\ inputText \in InputFiles
  /\ files = [n \in FileNames |-> NoFile]
  /\ toTranslate = <<>> /\ alreadyTranslated = <<>> /\ excludedByKey = <<>>
  /\ originalKeys = <<>>
  /\ batches = <<>>
  /\ loopIdx = 1
  /\ bpc = [b \in BatchIds |-> "pending"]
  /\ attempt = [b \in BatchIds |-> 0]
  /\ wakeAt = [b \in BatchIds |-> 0]
  /\ calls = [b \in BatchIds |-> 0]
  /\ waits = [b \in BatchIds |-> <<>>]
  /\ errors = [b \in BatchIds |-> <<>>]
  /\ activeCount = 0
  /\ successful = <<>> /\ failed = <<>>
  /\ stoppedEarly = FALSE /\ fatalError = <<>>
  /\ finalResult = <<>>
  /\ report = NoReport
  /\ exitCode = -1
  /\ rateLimiter = NoLimiter
  /\ now = 0
  /\ history = <<>>
  /\ InitCallers

\* filterEntriesForTranslation and createBatches on the parsed input.
Classify ==
  /\ pc = "classify"
  /\ LET f == filterEntriesForTranslation(JsonParse(inputText),
                config.skipTranslated, config.enableKeyFiltering)
     IN /\ toTranslate' = f.toTranslate
        /\ alreadyTranslated' = f.alreadyTranslated
        /\ excludedByKey' = f.excludedByKey
        /\ originalKeys' = f.originalKeys
        /\ IF createBatchesReturns(f.toTranslate, config.batchSize)
           THEN /\ batches' = createBatches(f.toTranslate, config.batchSize)
                /\ pc' = "collect"
           ELSE /\ batches' = batches
                /\ pc' = "batching"
  /\ UNCHANGED <<config, inputText, files, loopIdx, bpc, attempt, wakeAt, calls,
                 waits, errors, activeCount, successful, failed, stoppedEarly, fatalError,
                 finalResult, report, exitCode, rateLimiter, now, history,
                 callerVars>>

\* Batch b, still pending, completes successfully after the ones before it.
CompleteBatch(b) ==
  /\ pc = "collect"
  /\ b <= Len(batches)
  /\ bpc[b] = "pending"
  /\ bpc' = [bpc EXCEPT ![b] = "returned"]
  /\ successful' = Append(successful, SuccessResult(batches[b], 1))
  /\ UNCHANGED <<pc, config, inputText, files, toTranslate, alreadyTranslated,
                 excludedByKey, originalKeys, batches, loopIdx, attempt, wakeAt,
                 calls, waits, errors, activeCount, failed, stoppedEarly, fatalError,
                 finalResult, report, exitCode, rateLimiter, now, history,
                 callerVars>>

\* assembleResults and combineResults on what has completed.
Reconcile ==
  /\ pc = "collect"
  /\ finalResult' = combineResults(assembleResults(successful), alreadyTranslated,
                                   excludedByKey, originalKeys).result
  /\ pc' = "merged"
  /\ UNCHANGED <<config, inputText, files, toTranslate, alreadyTranslated,
                 excludedByKey, originalKeys, batches, loopIdx, bpc, attempt,
                 wakeAt, calls, waits, errors, activeCount, successful, failed,
                 stoppedEarly, fatalError, report, exitCode, rateLimiter, now,
                 history, callerVars>>

NextReconciler ==
  \/ Classify
  \/ \E b \in BatchIds : CompleteBatch(b)
  \/ Reconcile

SpecReconciler == InitReconciler /\ [][NextReconciler]_vars

-----------------------------------------------------------------------------
\* The classifier and the batcher on their own, over every policy and over
\* input files that also hold the key "__proto__" and blank values.

ClassifierEntries == InputEntries \cup {<<ProtoKey, "">>, <<ProtoKey, "ya">>,
                                        <<"Beef", " ">>}
ClassifierInputs ==
  UNION {{t \in [1..n -> ClassifierEntries] :
            \A i, j \in 1..n : i # j => t[i][1] # t[j][1]} : n \in 0..MaxEntries}
\* --batch-size takes any integer.
AnyBatchSizes == {-1, 0, 1, 2, 3}

\* Nothing of a run has happened yet.
NothingRun ==
  /\ files = [n \in FileNames |-> NoFile]
  /\ toTranslate = <<>> /\ alreadyTranslated = <<>> /\ excludedByKey = <<>>
  /\ originalKeys = <<>>
  /\ batches = <<>>
  /\ loopIdx = 1
  /\ bpc = [b \in BatchIds |-> "pending"]
  /\ attempt = [b \in BatchIds |-> 0]
  /\ wakeAt = [b \in BatchIds |-> 0]
  /\ calls = [b \in BatchIds |-> 0]
  /\ waits = [b \in BatchIds |-> <<>>]
  /\ errors = [b \in BatchIds |-> <<>>]
  /\ activeCount = 0
  /\ successful = <<>> /\ failed = <<>>
  /\ stoppedEarly = FALSE /\ fatalError = <<>>
  /\ finalResult = <<>>
  /\ report = NoReport
  /\ exitCode = -1
  /\ rateLimiter = NoLimiter
  /\ now = 0
  /\ history = <<>>
  /\ InitCallers

InitClassifier ==
  /\ pc = "classify"
  /\ \E size \in AnyBatchSizes, skip \in BOOLEAN, filter \in BOOLEAN :
       config = [TestConfig EXCEPT !.batchSize = size, !.skipTranslated = skip,
                                   !.enableKeyFiltering = filter,
                                   !.respectRateLimits = FALSE]
  /\ inputText \in ClassifierInputs
  /\ NothingRun

NextClassifier == Classify

SpecClassifier == InitClassifier /\ [][NextClassifier]_vars

-----------------------------------------------------------------------------
\* The run under every error of the remote call and every kind of response,
\* without the limiter, one entry per batch: one batch with up to MaxAttempts
\* attempts, or several batches with at most one attempt each.

\* Largest number of entries of the input of such a run.
MaxBatches == 2

FailureEntries == {<<"429", "">>, <<"Beef", "">>, <<"Milk", "">>}
FailureInputs ==
  UNION {{t \in [1..n -> FailureEntries] :
            \A i, j \in 1..n : i # j => t[i][1] # t[j][1]} : n \in 1..MaxBatches}

InitFailures ==
  /\ pc = "start"
  /\ \E retries \in 0..MaxAttempts, size \in BatchSizes :
       config = [TestConfig EXCEPT !.maxRetries = retries,
                                   !.batchSize = size,
                                   !.enableKeyFiltering = FALSE,
                                   !.respectRateLimits = FALSE]
  /\ inputText \in FailureInputs
  /\ Len(inputText) = 1 \/ config.maxRetries <= 1
  /\ NothingRun

NextFailures ==
  \/ StartRun
  \/ LoopStep
  \/ \E b \in BatchIds : BeginAttempt(b)
  \/ \E b \in 1..Len(batches) : \E response \in Responses(batches[b].data) :
       RemoteResponds(b, response)
  \/ \E b \in BatchIds, sig \in ErrorSignals : RemoteFails(b, ApiError(sig))
  \/ \E b \in BatchIds : BackoffDone(b)
  \/ LoopEnd
  \/ Finalize
  \/ Exit

SpecFailures == InitFailures /\ [][NextFailures]_vars

-----------------------------------------------------------------------------
\* The run under the scheduling of the event loop: a step that can be taken
\* is taken in the end, so every remote call returns or fails and every
\* timer fires. One policy and one output name; the input is a file of none
\* to three blank entries, which gives one to three batches or none at all.

ScheduledFile == <<(<<"Beef", "">>), (<<"Milk", "">>), (<<"7", "">>)>>

InitScheduled ==
  /\ Init
  /\ \E n \in 0..Len(ScheduledFile) : inputText = SubSeq(ScheduledFile, 1, n)
  /\ config.skipTranslated /\ config.enableKeyFiltering
  /\ config.concurrencyLimit = 1
  /\ config.outputFile = <<"out", ".json">>

SpecScheduled == InitScheduled /\ [][Next]_vars /\ WF_vars(Next)

-----------------------------------------------------------------------------
\* Two runs in one process: processTranslation is called with the limiter
\* enabled and, once it has returned its report, a second time with the limiter
\* disabled. The module-level rateLimiter, the clock and the storage are those
\* the first run left; everything else is local to a call.

RunAgain ==
  /\ pc = "reported"
  /\ config.respectRateLimits
  /\ config' = [config EXCEPT !.respectRateLimits = FALSE, !.rpm = 0]
  /\ pc' = "start"
  /\ toTranslate' = <<>> /\ alreadyTranslated' = <<>> /\ excludedByKey' = <<>>
  /\ originalKeys' = <<>>
  /\ batches' = <<>>
  /\ loopIdx' = 1
  /\ bpc' = [b \in BatchIds |-> "pending"]
  /\ attempt' = [b \in BatchIds |-> 0]
  /\ wakeAt' = [b \in BatchIds |-> 0]
  /\ calls' = [b \in BatchIds |-> 0]
  /\ waits' = [b \in BatchIds |-> <<>>]
  /\ errors' = [b \in BatchIds |-> <<>>]
  /\ activeCount' = 0
  /\ successful' = <<>> /\ failed' = <<>>
  /\ stoppedEarly' = FALSE /\ fatalError' = <<>>
  /\ finalResult' = <<>>
  /\ report' = NoReport
  /\ UNCHANGED <<inputText, files, exitCode, rateLimiter, now, history, callerVars>>

InitTwoRuns ==
  /\ Init
  /\ config.respectRateLimits
  /\ config.skipTranslated /\ config.enableKeyFiltering
  /\ config.concurrencyLimit = 1
  /\ config.outputFile = <<"out", ".json">>
  /\ \E n \in 0..Len(ScheduledFile) : inputText = SubSeq(ScheduledFile, 1, n)

NextTwoRuns ==
  \/ StartRun
  \/ LoopStep
  \/ \E b \in BatchIds : BeginAttempt(b)
  \/ \E b \in BatchIds : RateLimitPassed(b)
  \/ \E b \in BatchIds : RemoteSucceeds(b)
  \/ \E b \in BatchIds, sig \in RunErrors : RemoteFails(b, ApiError(sig))
  \/ \E b \in BatchIds : BackoffDone(b)
  \/ LoopEnd
  \/ Finalize
  \/ RunAgain

SpecTwoRuns == InitTwoRuns /\ [][NextTwoRuns]_vars

-----------------------------------------------------------------------------
\* The executor on one batch, with up to MaxAttempts + 1 attempts and the retry
\* delays a configuration may carry: the default, and none at all.

RetryDelays == {0, RetryDelayMs}

InitBackoff ==
  /\ pc = "start"
  /\ \E retries \in 0..(MaxAttempts + 1), delay \in RetryDelays :
       config = [TestConfig EXCEPT !.maxRetries = retries,
                                   !.retryDelay = delay,
                                   !.enableKeyFiltering = FALSE,
                                   !.respectRateLimits = FALSE]
  /\ inputText \in FailureInputs
  /\ Len(inputText) = 1
  /\ NothingRun

SpecBackoff == InitBackoff /\ [][NextFailures]_vars

-----------------------------------------------------------------------------
\* The limiter driven through its exported functions, in any order: requests
\* are recorded with or without a wait before them, the status is read, and
\* time passes to the instants around the ageing of a recorded request.

\* How long after a recorded request the clock is read again, in ms.
AgeSteps == {1, WindowMs - 1, WindowMs, WindowMs + BufferMs}

\* recordRequest()
RecordRequest ==
  /\ Len(history) < MaxCalls
  /\ rateLimiter' = recordRequest(rateLimiter, now)
  /\ history' = Append(history, now)
  /\ UNCHANGED <<runVars, now, callerVars>>

\* getRateLimiterStatus(): canMakeRequest and calculateWaitTime prune the window
GetStatus ==
  /\ canMakeRequest(rateLimiter, now) \in BOOLEAN
  /\ rateLimiter' = Pruned(rateLimiter, now)
  /\ UNCHANGED <<runVars, now, history, callerVars>>

TimePasses(t) ==
  /\ t > now
  /\ now' = t
  /\ UNCHANGED <<runVars, rateLimiter, history, callerVars>>

InitLimiterCalls == InitLimiter({})

NextLimiterCalls ==
  \/ RecordRequest
  \/ GetStatus
  \/ \E i \in 1..Len(history), d \in AgeSteps : TimePasses(history[i] + d)

SpecLimiterCalls == InitLimiterCalls /\ [][NextLimiterCalls]_vars

-----------------------------------------------------------------------------
\* The scheduled run with room in the pool: a concurrency limit of two and a
\* file of two blank entries cut into two batches of one.

PoolFile == <<(<<"Beef", "">>), (<<"Milk", "">>)>>

InitPool ==
  /\ Init
  /\ inputText = PoolFile
  /\ config.batchSize = 1
  /\ config.concurrencyLimit = 2
  /\ config.outputFile = <<"out", ".json">>

SpecPool == InitPool /\ [][Next]_vars /\ WF_vars(Next)

-----------------------------------------------------------------------------
\* Runs repeated in one process with the limiter enabled each time:
\* processTranslation is called again with the same configuration once it has
\* returned its report, until MaxCalls requests have been made in the process.

RunRepeated ==
  /\ pc = "reported"
  /\ config.respectRateLimits
  /\ Len(history) < MaxCalls
  /\ pc' = "start"
  /\ toTranslate' = <<>> /\ alreadyTranslated' = <<>> /\ excludedByKey' = <<>>
  /\ originalKeys' = <<>>
  /\ batches' = <<>>
  /\ loopIdx' = 1
  /\ bpc' = [b \in BatchIds |-> "pending"]
  /\ attempt' = [b \in BatchIds |-> 0]
  /\ wakeAt' = [b \in BatchIds |-> 0]
  /\ calls' = [b \in BatchIds |-> 0]
  /\ waits' = [b \in BatchIds |-> <<>>]
  /\ errors' = [b \in BatchIds |-> <<>>]
  /\ activeCount' = 0
  /\ successful' = <<>> /\ failed' = <<>>
  /\ stoppedEarly' = FALSE /\ fatalError' = <<>>
  /\ finalResult' = <<>>
  /\ report' = NoReport
  /\ UNCHANGED <<config, inputText, files, exitCode, rateLimiter, now, history,
                 callerVars>>

NextRepeated ==
  \/ StartRun
  \/ LoopStep
  \/ \E b \in BatchIds : BeginAttempt(b)
  \/ \E b \in BatchIds : RateLimitPassed(b)
  \/ \E b \in BatchIds : RemoteSucceeds(b)
  \/ \E b \in BatchIds, sig \in RunErrors : RemoteFails(b, ApiError(sig))
  \/ \E b \in BatchIds : BackoffDone(b)
  \/ LoopEnd
  \/ Finalize
  \/ RunRepeated

SpecRepeated == InitTwoRuns /\ [][NextRepeated]_vars

-----------------------------------------------------------------------------
\* The consolidation tool: main() of the script that moves the translations of
\* a partial file into the original file. inputText is the original file, the
\* partial file is the one a halted run saved, and the result is written to
\* config.outputFile.

\* String.prototype.trim on the values of the model.
Trim(value) ==
  IF value \in BlankValues THEN "" ELSE IF value = "ya " THEN "ya" ELSE value

\* The forEach of consolidateTranslations: map holds the entries set so far.
RECURSIVE ConsolidateKeysTrimmed(_, _, _)
ConsolidateKeysTrimmed(keys, partialData, map) ==
  IF keys = <<>> THEN map
  ELSE LET key == Head(keys)
           has == /\ HasOwnProperty(partialData, key)
                  /\ GetProp(partialData, key) # ""
                  /\ Trim(GetProp(partialData, key)) # ""
           value == IF has THEN Trim(GetProp(partialData, key)) ELSE ""
       IN ConsolidateKeysTrimmed(Tail(keys), partialData, Append(map, <<key, value>>))
RECURSIVE ConsolidateKeys(_, _, _)
ConsolidateKeys(keys, partialData, map) ==
  IF keys = <<>> THEN map
  ELSE LET key == Head(keys)
           has == /\ HasOwnProperty(partialData, key)
                  /\ GetProp(partialData, key) # ""
                  /\ Trim(GetProp(partialData, key)) # ""
           value == IF has THEN GetProp(partialData, key) ELSE ""
       IN ConsolidateKeys(Tail(keys), partialData, Append(map, <<key, value>>))

\* (translated / total * 100).toFixed(1), in tenths of a percent.
completionPercentage(translated, total) ==
  IF total = 0 THEN "NaN" ELSE (2000 * translated + total) \div (2 * total)

consolidateTranslations(originalData, partialData, keys) ==
  LET map == ConsolidateKeys(keys, partialData, <<>>)
      translatedCount == Cardinality({i \in 1..Len(map) : map[i][2] # ""})
  IN [data |-> FromEntries(<<>>, map),
      stats |-> [total |-> Len(keys),
                 translated |-> translatedCount,
                 untranslated |-> Len(keys) - translatedCount,
                 completionPercentage |-> completionPercentage(translatedCount, Len(keys))]]

\* orderedResult of main(): one assignment per original key the data holds.
RECURSIVE OrderedResult(_, _, _)
OrderedResult(keys, data, acc) ==
  IF keys = <<>> THEN acc
  ELSE OrderedResult(Tail(keys), data,
         IF HasOwnProperty(data, Head(keys))
         THEN SetProp(acc, Head(keys), GetProp(data, Head(keys))) ELSE acc)

PartialEntries == {<<"Beef", "res">>, <<"Beef", " ">>, <<"Milk", "">>, <<"Milk", "ya ">>,
                   <<"7", "siete">>, <<ProtoKey, "otra">>, <<"429", "resto">>}
PartialFiles ==
  UNION {{t \in [1..n -> PartialEntries] :
            \A i, j \in 1..n : i # j => t[i][1] # t[j][1]} : n \in 0..MaxBatches}

InitConsolidator ==
  /\ pc = "consolidate"
  /\ config = [TestConfig EXCEPT !.outputFile = <<"out", ".json">>]
  /\ inputText \in ClassifierInputs
  /\ \E partial \in PartialFiles :
       files = writeJsonFile([n \in FileNames |-> NoFile],
                             partialOutputFile(<<"out", ".json">>), partial)
  /\ toTranslate = <<>> /\ alreadyTranslated = <<>> /\ excludedByKey = <<>>
  /\ originalKeys = <<>>
  /\ batches = <<>>
  /\ loopIdx = 1
  /\ bpc = [b \in BatchIds |-> "pending"]
  /\ attempt = [b \in BatchIds |-> 0]
  /\ wakeAt = [b \in BatchIds |-> 0]
  /\ calls = [b \in BatchIds |-> 0]
  /\ waits = [b \in BatchIds |-> <<>>]
  /\ errors = [b \in BatchIds |-> <<>>]
  /\ activeCount = 0
  /\ successful = <<>> /\ failed = <<>>
  /\ stoppedEarly = FALSE /\ fatalError = <<>>
  /\ finalResult = <<>>
  /\ report = NoReport
  /\ exitCode = -1
  /\ rateLimiter = NoLimiter
  /\ now = 0
  /\ history = <<>>
  /\ InitCallers

Consolidate ==
  /\ pc = "consolidate"
  /\ \E originalData \in {JsonParse(inputText)} :
     \E partialData \in {JsonParse(files[partialOutputFile(config.outputFile)].data)} :
     \E result \in {consolidateTranslations(originalData, partialData,
                                            ObjectKeys(originalData))} :
        /\ originalKeys' = ObjectKeys(originalData)
        /\ finalResult' = result.data
        /\ report' = result.stats
        /\ files' = writeJsonFile(files, config.outputFile,
                      OrderedResult(ObjectKeys(originalData), result.data, <<>>))
  /\ pc' = "consolidated"
  /\ UNCHANGED <<config, inputText, toTranslate, alreadyTranslated, excludedByKey,
                 batches, loopIdx, bpc, attempt, wakeAt, calls, waits, errors,
                 activeCount, successful, failed, stoppedEarly, fatalError, exitCode,
                 rateLimiter, now, history, callerVars>>

NextConsolidator == Consolidate

SpecConsolidator == InitConsolidator /\ [][NextConsolidator]_vars

-----------------------------------------------------------------------------
\* createBatches pass by pass, for any integer batchSize. toTranslate is the
\* jsonData it is called with, loopIdx the index i of its for loop (0-based)
\* and batches the list it pushes to. The list is followed up to
\* MaxEntries + 1 batches, one more than any input of the model has entries.

\* Math.floor(a / b) for integers a and b, b # 0
FloorDiv(a, b) == IF b > 0 THEN a \div b ELSE (0 - a) \div (0 - b)
\* Array.prototype.slice(start, end): a negative index counts from the end.
SliceIndex(k, len) == IF k < 0 THEN Max(len + k, 0) ELSE Min(k, len)
Slice(entries, start, end) ==
  SubSeq(entries, SliceIndex(start, Len(entries)) + 1, SliceIndex(end, Len(entries)))

InitBatcher ==
  /\ pc = "createBatches"
  /\ \E size \in AnyBatchSizes : config = [TestConfig EXCEPT !.batchSize = size]
  /\ inputText \in InputFiles
  /\ toTranslate = JsonParse(inputText)
  /\ files = [n \in FileNames |-> NoFile]
  /\ alreadyTranslated = <<>> /\ excludedByKey = <<>>
  /\ originalKeys = <<>>
  /\ batches = <<>>
  /\ loopIdx = 0
  /\ bpc = [b \in BatchIds |-> "pending"]
  /\ attempt = [b \in BatchIds |-> 0]
  /\ wakeAt = [b \in BatchIds |-> 0]
  /\ calls = [b \in BatchIds |-> 0]
  /\ waits = [b \in BatchIds |-> <<>>]
  /\ errors = [b \in BatchIds |-> <<>>]
  /\ activeCount = 0
  /\ successful = <<>> /\ failed = <<>>
  /\ stoppedEarly = FALSE /\ fatalError = <<>>
  /\ finalResult = <<>>
  /\ report = NoReport
  /\ exitCode = -1
  /\ rateLimiter = NoLimiter
  /\ now = 0
  /\ history = <<>>
  /\ InitCallers

BatcherUnchanged ==
  UNCHANGED <<config, inputText, files, toTranslate, alreadyTranslated,
              excludedByKey, originalKeys, bpc, attempt, wakeAt, calls, waits,
              errors, activeCount, successful, failed, stoppedEarly, fatalError,
              finalResult, report, exitCode, rateLimiter, now, history, callerVars>>

\* `if (entriesCount === 0) return []`
CreateBatchesEmpty ==
  /\ pc = "createBatches"
  /\ Len(toTranslate) = 0
  /\ pc' = "batched"
  /\ UNCHANGED <<batches, loopIdx>>
  /\ BatcherUnchanged

\* `const batches = []; for (let i = 0; ...`
CreateBatchesEnter ==
  /\ pc = "createBatches"
  /\ Len(toTranslate) # 0
  /\ pc' = "batching"
  /\ batches' = <<>>
  /\ loopIdx' = 0
  /\ BatcherUnchanged

\* One pass of the loop: the test i < entries.length, the body, i += batchSize.
CreateBatchesPass ==
  /\ pc = "batching"
  /\ loopIdx < Len(toTranslate)
  /\ Len(batches) <= MaxEntries
  /\ \E batchEntries \in {Slice(toTranslate, loopIdx, loopIdx + config.batchSize)} :
       batches' = Append(batches,
         [id |-> IF config.batchSize = 0 THEN "NaN"
                 ELSE FloorDiv(loopIdx, config.batchSize) + 1,
          data |-> FromEntries(<<>>, batchEntries),
          entriesCount |-> Len(batchEntries),
          startIndex |-> loopIdx,
          endIndex |-> Min(loopIdx + config.batchSize - 1, Len(toTranslate) - 1)])
  /\ loopIdx' = loopIdx + config.batchSize
  /\ pc' = "batching"
  /\ BatcherUnchanged

\* The test i < entries.length fails: `return batches`
CreateBatchesReturn ==
  /\ pc = "batching"
  /\ ~(loopIdx < Len(toTranslate))
  /\ pc' = "batched"
  /\ UNCHANGED <<batches, loopIdx>>
  /\ BatcherUnchanged

NextBatcher ==
  \/ CreateBatchesEmpty
  \/ CreateBatchesEnter
  \/ CreateBatchesPass
  \/ CreateBatchesReturn

SpecBatcher == InitBatcher /\ [][NextBatcher]_vars

-----------------------------------------------------------------------------
\* Properties.

\* Every outcome the scheduler returns, successful ones first.
Outcomes == successful \o failed
OutcomeCount(id) == Cardinality({i \in 1..Len(Outcomes) : Outcomes[i].batchId = id})
\* A batch the for loop never handed to the executor.
NeverDispatched(b) == b <= Len(batches) /\ bpc[b] = "pending"
FatalSeen == \E i \in 1..Len(failed) : failed[i].isFatal
\* Some file of the storage holds every translation of the successful result r.
Persisted(r) ==
  \E n \in FileNames :
    /\ files[n].exists
    /\ \A i \in 1..Len(r.data) :
         /\ HasOwnProperty(files[n].data, r.data[i][1])
         /\ GetProp(files[n].data, r.data[i][1]) = r.data[i][2]
\* Position of key k in the sequence of distinct keys.
Position(keys, k) == CHOOSE i \in 1..Len(keys) : keys[i] = k

\* C1: when the scheduler has returned, every batch of createBatches is in the
\* outcome set (successful plus failed) exactly once.
C1_EveryBatchExactlyOnce ==
  pc = "reported" => \A b \in 1..Len(batches) : OutcomeCount(batches[b].id) = 1

\* C2: once a fatal outcome is recorded, no batch that was not yet dispatched is
\* dispatched or called; and every batch whose remote call was started has
\* its outcome in the outcome set when the scheduler has returned.
C2_NoDispatchAfterFatal ==
  /\ [][FatalSeen =>
          \A b \in BatchIds : bpc[b] = "pending" => bpc'[b] = "pending" /\ calls'[b] = 0]_vars
  /\ [](pc = "reported" => \A b \in BatchIds : calls[b] > 0 => OutcomeCount(b) = 1)
C2_Witness ==
  /\ pc = "reported" /\ stoppedEarly /\ FatalSeen
  /\ Len(successful) > 0
  /\ \E b \in BatchIds : NeverDispatched(b)

\* C3: after a fatal halt every batch that was never dispatched is in the
\* failed outcomes as skipped, with attempts = 0 and the stop reason, and the
\* report lists it.
C3_SkippedRecorded ==
  (pc = "reported" /\ stoppedEarly) =>
    \A b \in BatchIds : NeverDispatched(b) =>
      /\ \E i \in 1..Len(failed) :
           /\ failed[i].batchId = batches[b].id
           /\ failed[i].skipped /\ failed[i].attempts = 0
           /\ failed[i].error = SkippedMessage
      /\ \E i \in 1..Len(report.failed) :
           report.failed[i].batchId = batches[b].id /\ report.failed[i].skipped

\* C4: after a fatal halt every batch that completed successfully is among the
\* successful outcomes of the report and its translations are in the merged
\* output, which is in storage.
C4_CompletedWorkSaved ==
  (pc = "reported" /\ stoppedEarly) =>
    \A i \in 1..Len(successful) :
      /\ \E j \in 1..Len(report.successful) :
           report.successful[j].batchId = successful[i].batchId
      /\ \A k \in 1..Len(successful[i].data) :
           /\ HasOwnProperty(finalResult, successful[i].data[k][1])
           /\ GetProp(finalResult, successful[i].data[k][1]) = successful[i].data[k][2]
      /\ \E n \in FileNames : files[n].exists /\ files[n].data = finalResult
C4_Witness ==
  pc = "reported" /\ stoppedEarly /\ Len(successful) > 0 /\ Len(batches) > 1

\* C5: when the process has ended early, by a fatal halt or by a signal, the
\* translations of every batch that had completed successfully are in storage.
C5_ProgressPersistedOnEarlyStop ==
  (pc = "exited" /\ (stoppedEarly \/ exitCode \in {ExitSigint, ExitSigterm})) =>
    \A i \in 1..Len(successful) : Persisted(successful[i])

\* C6: after a fatal halt the merged partial output is in a file whose name
\* differs from the configured one, and the configured file is not written.
C6_PartialOutputElsewhere ==
  (pc = "reported" /\ stoppedEarly /\ Len(finalResult) > 0) =>
    /\ ~files[config.outputFile].exists
    /\ \E n \in FileNames \ {config.outputFile} :
         files[n].exists /\ files[n].data = finalResult

\* C7: with one sequential caller the 60 seconds that end at any recorded
\* request, or now, hold at most R recorded requests, and request j comes
\* at least 60 * floor((j-1)/R) seconds after the first.
C7_RateCeilingSequential ==
  rateLimiter.limits >= 1 =>
    /\ InWindow(history, now) <= rateLimiter.limits
    /\ \A j \in 1..Len(history) :
         /\ InWindow(history, history[j]) <= rateLimiter.limits
         /\ history[j] - history[1] >= WindowMs * ((j - 1) \div rateLimiter.limits)
C7_Witness ==
  /\ rateLimiter.limits >= 1
  /\ Len(history) > rateLimiter.limits
  /\ \E c \in DOMAIN completed : completed[c] = MaxCalls

\* C8: with several callers the 60 seconds that end now never hold more than R
\* recorded requests.
C8_RateCeilingConcurrent ==
  rateLimiter.limits >= 1 => InWindow(history, now) <= rateLimiter.limits

\* C9: the number of remote calls in flight is at most concurrencyLimit.
C9_ConcurrencyBound == Cardinality(InFlight) <= config.concurrencyLimit
C9_Witness ==
  /\ pc = "loop"
  /\ Cardinality(InFlight) = config.concurrencyLimit
  /\ loopIdx <= Len(batches)

\* C10: the keys of the merged output are in the relative order of the original
\* keys, and each of them is a key of one of the three sources.
C10_OrderPreserved ==
  pc = "merged" =>
    LET keys == ObjectKeys(finalResult)
        new == assembleResults(successful)
    IN /\ \A i \in 1..Len(keys) : keys[i] \in SeqRange(originalKeys)
       /\ \A i, j \in 1..Len(keys) :
            i < j => Position(originalKeys, keys[i]) < Position(originalKeys, keys[j])
       /\ \A i \in 1..Len(keys) :
            \/ HasOwnProperty(excludedByKey, keys[i])
            \/ HasOwnProperty(alreadyTranslated, keys[i])
            \/ HasOwnProperty(new, keys[i])
C10_Witness ==
  /\ pc = "merged"
  /\ Len(successful) > 1 /\ successful[1].batchId > successful[2].batchId
  /\ Len(alreadyTranslated) + Len(excludedByKey) > 0
  /\ ObjectKeys(JsonParse(inputText)) # [i \in 1..Len(inputText) |-> inputText[i][1]]

\* The three sets of the classifier, and the input they were sorted from.
Parts == <<toTranslate, alreadyTranslated, excludedByKey>>
Classified == pc \notin {"classify", "start", "test"}
\* The units of all batches, batch after batch.
RECURSIVE BatchUnits(_)
BatchUnits(bs) == IF bs = <<>> THEN <<>> ELSE Head(bs).data \o BatchUnits(Tail(bs))
RECURSIVE SumEntriesCount(_)
SumEntriesCount(bs) ==
  IF bs = <<>> THEN 0 ELSE Head(bs).entriesCount + SumEntriesCount(Tail(bs))

\* C11: after filterEntriesForTranslation every key of the input is in exactly
\* one of toTranslate, alreadyTranslated and excludedByKey, with the value the
\* input gives it, and the three sets hold no other key.
C11_PartitionComplete ==
  Classified =>
    LET input == JsonParse(inputText)
    IN /\ \A i \in 1..Len(input) :
            /\ Cardinality({p \in 1..3 : HasOwnProperty(Parts[p], input[i][1])}) = 1
            /\ \A p \in 1..3 : HasOwnProperty(Parts[p], input[i][1]) =>
                                 GetProp(Parts[p], input[i][1]) = input[i][2]
       /\ \A p \in 1..3 : \A i \in 1..Len(Parts[p]) :
            HasOwnProperty(input, Parts[p][i][1])
\* The same for the inputs without the key "__proto__".
C11_PartitionOfPlainKeys ==
  (\A i \in 1..Len(inputText) : inputText[i][1] # ProtoKey) => C11_PartitionComplete

\* C12: for batchSize >= 1 the batches createBatches returned are pairwise
\* disjoint, their units together are the input units, and their entriesCount
\* sum up to the number of input units.
C12_BatchCoverage ==
  (pc = "collect" /\ config.batchSize >= 1) =>
    /\ \A a, b \in 1..Len(batches) :
         a # b => \A i \in 1..Len(batches[a].data) :
                    ~HasOwnProperty(batches[b].data, batches[a].data[i][1])
    /\ SeqRange(BatchUnits(batches)) = SeqRange(toTranslate)
    /\ Len(BatchUnits(batches)) = Len(toTranslate)
    /\ SumEntriesCount(batches) = Len(toTranslate)
    /\ \A b \in 1..Len(batches) : batches[b].entriesCount = Len(batches[b].data)
C12_Witness ==
  /\ pc = "collect" /\ config.batchSize >= 2
  /\ Len(batches) >= 2
  /\ batches[Len(batches)].entriesCount < config.batchSize

\* C20: with batchSize < 1 createBatches ends in a configuration error: it
\* neither returns batches nor stays in its loop.
C20_RejectsBatchSizeBelowOne ==
  (Classified /\ config.batchSize < 1) => pc = "configuration error"

Last(seq) == seq[Len(seq)]
\* The failed outcomes recorded for batch b.
FailedOutcomes(b) == {i \in 1..Len(failed) : failed[i].batchId = b}
\* Batches of which a remote call has failed, and the error of the latest failure.
Failing == {b \in BatchIds : errors[b] # <<>>}
Retryable(message) == ~handleGeminiError(message).shouldStop
FatalSignals == {"RATE_LIMIT_EXCEEDED", "429", "QUOTA_EXCEEDED", "INVALID_API_KEY",
                 "MODEL_NOT_FOUND"}
ApiErrors == {ApiError(sig) : sig \in ErrorSignals}
IsValidationFailure(message) ==
  message[1] \in {InvalidJsonText, NotAnObjectText, MissingKeysText, NotAStringText}

\* C13: when maxRetries attempts of a batch have all failed with a retryable
\* error, the executor has returned one failed outcome for it that is not
\* fatal and has attempts = maxRetries, after exactly maxRetries remote calls.
C13_ExhaustedOutcome ==
  \A b \in Failing :
    (/\ Len(errors[b]) = config.maxRetries
     /\ \A i \in 1..Len(errors[b]) : Retryable(errors[b][i])) =>
      /\ bpc[b] = "returned"
      /\ calls[b] = config.maxRetries
      /\ Cardinality(FailedOutcomes(b)) = 1
      /\ \A i \in FailedOutcomes(b) :
           /\ ~failed[i].success /\ ~failed[i].isFatal /\ ~failed[i].shouldStopProcessing
           /\ failed[i].attempts = config.maxRetries
C13_Witness ==
  \E b \in Failing :
    /\ config.maxRetries = MaxAttempts
    /\ Len(errors[b]) = config.maxRetries
    /\ \A i \in 1..Len(errors[b]) : Retryable(errors[b][i])
    /\ Last(errors[b]) = ApiError("INTERNAL")

\* C14: when attempt k of a batch has failed with a fatal error, the executor
\* has returned a failed outcome with isFatal and attempts = k, k remote calls
\* have been made and no backoff followed attempt k.
C14_FatalReturnsAtOnce ==
  \A b \in Failing :
    ~Retryable(Last(errors[b])) =>
      LET k == Len(errors[b])
      IN /\ bpc[b] = "returned"
         /\ calls[b] = k /\ attempt[b] = k
         /\ Len(waits[b]) = k - 1
         /\ Cardinality(FailedOutcomes(b)) = 1
         /\ \A i \in FailedOutcomes(b) : failed[i].isFatal /\ failed[i].attempts = k
C14_Witness ==
  \E b \in Failing :
    /\ Len(errors[b]) = 1 /\ config.maxRetries > 1
    /\ Last(errors[b]) = ApiError("QUOTA_EXCEEDED")
    /\ bpc[b] = "returned"

C16_ValidationNeverFatal ==
  \A b \in Failing :
    IsValidationFailure(Last(errors[b])) =>
      \A i \in FailedOutcomes(b) : ~failed[i].isFatal /\ ~failed[i].shouldStopProcessing

\* C17: when the latest error of a batch is a rate-limit error of the remote
\* call, the batch is retried while attempts are left, its outcome after the
\* last attempt is not fatal, and the run is not halted.
C17_RateLimitRetried ==
  \A b \in Failing :
    Last(errors[b]) \in {ApiError("RATE_LIMIT_EXCEEDED"), ApiError("429")} =>
      /\ Len(errors[b]) < config.maxRetries => bpc[b] # "returned"
      /\ \A i \in FailedOutcomes(b) : ~failed[i].shouldStopProcessing
      /\ ~stoppedEarly

\* C18: every batch whose executor has ended, by returning or by throwing, has
\* exactly one outcome, and a run that no fatal outcome halted ends only
\* after every batch has been processed.
C18_FailuresAreOutcomes ==
  /\ \A b \in BatchIds : bpc[b] = "returned" => OutcomeCount(b) = 1
  /\ (pc \in {"finalize", "reported", "exited"} /\ ~stoppedEarly) =>
       \A b \in 1..Len(batches) : bpc[b] = "returned"
C18_Witness ==
  /\ pc = "reported" /\ ~stoppedEarly /\ Len(batches) = 2
  /\ config.maxRetries = 0
  /\ \A b \in 1..2 : \E i \in FailedOutcomes(b) : failed[i].error = UnexpectedMessage

RatioStatus(a, b) ==
  IF a * 100 >= 90 * b THEN 0 ELSE IF a * 100 >= 50 * b THEN 2 ELSE 3

\* C21: the exit status of a run follows the share of the entries needing
\* translation that were translated successfully.
C21_ExitFollowsTranslationRatio ==
  (pc = "exited" /\ report.entriesNeedingTranslation > 0)
    => exitCode = RatioStatus(report.successfulNewTranslations,
                              report.entriesNeedingTranslation)

\* C22: a run halted by a fatal error with no batch completed never exits with
\* the status of success (0) or of warning (2).
C22_HaltedEmptyIsHardFailure ==
  (pc = "exited" /\ report.stoppedEarly /\ report.successfulBatches = 0)
    => exitCode \notin {0, 2}

\* The keys of an object, as a set.
KeysOf(obj) == {obj[i][1] : i \in 1..Len(obj)}

\* The partial output a halted run saved, and what the classifier of a re-run
\* with the same policy selects when that file is its input.
PartialFile == files[partialOutputFile(config.outputFile)]
RerunSelection ==
  filterEntriesForTranslation(JsonParse(PartialFile.data),
                              config.skipTranslated, config.enableKeyFiltering).toTranslate
\* The keys of the input the first run neither excluded, nor found translated,
\* nor translated.
UnsatisfiedKeys ==
  KeysOf(toTranslate) \ UNION {KeysOf(successful[i].data) : i \in 1..Len(successful)}

\* C23: after a halted run that saved a partial output, the re-run seeded with
\* that file selects every key the first run left unsatisfied.
C23_RerunSelectsUnsatisfied ==
  (pc = "reported" /\ stoppedEarly /\ PartialFile.exists)
    => UnsatisfiedKeys \subseteq KeysOf(RerunSelection)

\* C24: in a run with respectRateLimits = false no attempt waits on the rate
\* limiter, whatever ran before in the process.
C24_DisabledLimiterNeverWaits ==
  ~config.respectRateLimits => \A b \in BatchIds : bpc[b] # "ratewait"

\* A response is acceptable for a batch: it is an object and has every key of
\* the batch with a string value.
Acceptable(response, batchData) ==
  /\ response.kind = "object"
  /\ \A k \in KeysOf(batchData) :
       \E i \in 1..Len(response.entries) :
         response.entries[i][1] = k /\ response.entries[i][2].string
\* The value a response gives to a key.
ValueIn(response, k) ==
  response.entries[CHOOSE i \in 1..Len(response.entries) :
                     response.entries[i][1] = k][2].text

AttemptsPastLimiter(b) ==
  IF bpc[b] \in {"ready", "ratewait"} THEN attempt[b] - 1 ELSE attempt[b]
RECURSIVE SumCalls(_)
SumCalls(n) == IF n = 0 THEN 0 ELSE calls[n] + SumCalls(n - 1)

\* C26: with the limiter initialised, every attempt that has gone past the
\* limiter has recorded one request and made one remote call: the requests
\* recorded are as many as the remote calls, and the calls of each batch as
\* many as its attempts; an attempt still waiting has recorded nothing.
C26_OneRecordPerAttempt ==
  (rateLimiter.limits # 0 /\ Classified) =>
    /\ Len(history) = SumCalls(MaxEntries)
    /\ \A b \in BatchIds : calls[b] = AttemptsPastLimiter(b)
\* a batch retried: two attempts, two requests recorded, the second after a wait
C26_Witness ==
  /\ rateLimiter.limits # 0
  /\ \E b \in BatchIds : attempt[b] = 2 /\ calls[b] = 2 /\ bpc[b] = "calling"
  /\ Len(history) = 2 /\ history[2] > history[1]

\* The attempts of batch b that failed with a retryable error and were not the
\* last attempt allowed.
RetriedAttempts(b) ==
  {a \in 1..Len(errors[b]) : Retryable(errors[b][a]) /\ a < config.maxRetries}

\* C27: each retryable failure of an attempt a < maxRetries is followed by one
\* wait of retryDelay * 2^(a-1), the next attempt being due exactly that long
\* after the failure; no other failure is followed by a wait, and with the
\* failure of attempt maxRetries the executor has returned.
C27_BackoffExact ==
  \A b \in BatchIds :
    /\ Len(waits[b]) = Cardinality(RetriedAttempts(b))
    /\ \A a \in 1..Len(waits[b]) : waits[b][a] = config.retryDelay * 2 ^ (a - 1)
    /\ bpc[b] = "backoff" => wakeAt[b] = now + config.retryDelay * 2 ^ (attempt[b] - 1)
    /\ (Len(errors[b]) = config.maxRetries /\ config.maxRetries > 0)
         => bpc[b] = "returned" /\ Len(waits[b]) < config.maxRetries
\* three attempts failed: waits of 2000 and 4000, none after the third
C27_Witness ==
  \E b \in BatchIds :
    /\ bpc[b] = "returned" /\ Len(errors[b]) = 3 /\ config.maxRetries = 3
    /\ waits[b] = <<RetryDelayMs, 2 * RetryDelayMs>>

\* C28 as stated: for every retry delay each wait is longer than the one before.
C28_BackoffGrowsForEveryDelay ==
  \A b \in BatchIds : \A i \in 1..Len(waits[b]) :
    waits[b][i] > (IF i = 1 THEN 0 ELSE waits[b][i - 1])
\* C28, amended: for a retry delay greater than 0, each wait of a batch is
\* longer than the one before (the first one longer than no wait at all).
C28_BackoffGrows ==
  config.retryDelay > 0 =>
    \A b \in BatchIds : \A i \in 1..Len(waits[b]) :
      waits[b][i] > (IF i = 1 THEN 0 ELSE waits[b][i - 1])
C28_Witness ==
  /\ config.retryDelay > 0
  /\ \E b \in BatchIds : Len(waits[b]) = 2 /\ bpc[b] = "calling"

\* The recorded requests whose timestamp lies in the 60 seconds that end now.
TrailingRequests == {i \in 1..Len(history) : history[i] > now - WindowMs}
OldestTrailing ==
  CHOOSE t \in {history[i] : i \in TrailingRequests} :
    \A i \in TrailingRequests : t <= history[i]

\* C29: with a ceiling R >= 1, canMakeRequest is true iff fewer than R recorded
\* timestamps lie in the trailing 60 seconds; calculateWaitTime is 0 exactly
\* then, and otherwise the time until the oldest timestamp of the window ages
\* out plus the margin of 100 ms.
C29_LimiterContract ==
  rateLimiter.limits >= 1 =>
    /\ canMakeRequest(rateLimiter, now) <=> Cardinality(TrailingRequests) < rateLimiter.limits
    /\ calculateWaitTime(rateLimiter, now) = 0 <=> canMakeRequest(rateLimiter, now)
    /\ ~canMakeRequest(rateLimiter, now) =>
         calculateWaitTime(rateLimiter, now) = OldestTrailing + WindowMs - now + BufferMs
\* the window is over the ceiling, its oldest request one ms from ageing out
C29_Witness ==
  /\ rateLimiter.limits = 2
  /\ Cardinality(TrailingRequests) = 3
  /\ now = OldestTrailing + WindowMs - 1
  /\ calculateWaitTime(rateLimiter, now) = BufferMs + 1

\* Three requests were recorded one right after the other (within 1 ms) and no
\* fourth one yet, under a ceiling of 2.
ThreeRecordedAtOnce ==
  /\ rateLimiter.limits = 2
  /\ Len(history) = 3
  /\ history[3] - history[1] <= 1

\* C30: with ceiling 2 and three requests recorded at once, the wait computed
\* before a fourth call is greater than 0 right after them, and is 0 only when
\* the timestamp of the first request is at least 60 seconds old.
C30_WaitUntilFirstAgesOut ==
  ThreeRecordedAtOnce =>
    /\ now = history[3] => calculateWaitTime(rateLimiter, now) > 0
    /\ calculateWaitTime(rateLimiter, now) = 0 => now >= history[1] + WindowMs
C30_Witness ==
  /\ ThreeRecordedAtOnce
  /\ now = history[1] + WindowMs
  /\ calculateWaitTime(rateLimiter, now) = 0

\* The part an entry is routed to: 3 excluded, 2 already translated, 1 to
\* translate (the numbering of Parts).
RouteOf(key, value) ==
  IF config.enableKeyFiltering /\ key \in IndexKeys THEN 3
  ELSE IF config.skipTranslated /\ value \notin {"", " "} THEN 2
  ELSE 1

C32_TwoCallsInFlight ==
  <>(\/ Cardinality(InFlight) >= 2
     \/ pc = "reported" /\ \E b \in 1..Len(batches) : calls[b] = 0)

\* The verdict of the rate-limit test after numRequests sequential calls:
\* theoreticalMin is in seconds, the clock in milliseconds from startTime = 0.
theoreticalMin(numRequests, rpm) == ((numRequests + rpm - 1) \div rpm) * 60
RateLimitingWorking(numRequests) ==
  now >= (theoreticalMin(numRequests, rateLimiter.limits) - 5) * 1000

\* C33: when the sequential caller has completed N calls under a ceiling of R,
\* the elapsed time is at least ceil(N/R) * 60 - 5 seconds, so the test
\* reports that rate limiting is working.
C33_ElapsedAtLeastTheoreticalMin ==
  (callerPc[1] = "idle" /\ completed[1] >= 1) => RateLimitingWorking(completed[1])

\* C34: no operation of the process discards a recorded timestamp that is still
\* inside the trailing 60 seconds once the operation is done.
C34_WindowKeptAcrossRuns ==
  [][\A i \in 1..Len(rateLimiter.requests) :
       rateLimiter.requests[i] > now' - WindowMs
         => rateLimiter.requests[i] \in SeqRange(rateLimiter'.requests)]_vars

\* C35: consolidateTranslations returns the keys of the original file in their
\* order, each with the partial file's value when that value is not blank and
\* with the empty string otherwise, and translated + untranslated = total.
C35_ConsolidationContract ==
  pc = "consolidated" =>
    LET originalData == JsonParse(inputText)
        partialData == JsonParse(files[partialOutputFile(config.outputFile)].data)
    IN /\ ObjectKeys(finalResult) = ObjectKeys(originalData)
       /\ \A i \in 1..Len(finalResult) :
            LET key == finalResult[i][1]
            IN finalResult[i][2] =
                 IF HasOwnProperty(partialData, key)
                    /\ GetProp(partialData, key) \notin BlankValues
                 THEN GetProp(partialData, key) ELSE ""
       /\ report.translated + report.untranslated = report.total
       /\ report.total = Len(originalData)
       /\ report.translated = Cardinality({i \in 1..Len(finalResult) : finalResult[i][2] # ""})
C35_Witness ==
  /\ pc = "consolidated"
  /\ finalResult = <<(<<"7", "siete">>), (<<"Beef", "">>), (<<"Milk", "ya ">>)>>
  /\ inputText[1][1] = "Beef"
  /\ report.translated = 2 /\ report.untranslated = 1

\* C36: no batch is recorded as successfully translated with a blank value for
\* one of its keys: every value a successful outcome retains is a non-blank
\* string.
C36_BlankTranslationRejected ==
  \A i \in 1..Len(successful) : \A j \in 1..Len(successful[i].data) :
    successful[i].data[j][2] \notin BlankValues

\* The keys of the new translations: those of the data of the successful batches.
NewTranslationKeys == UNION {KeysOf(successful[i].data) : i \in 1..Len(successful)}

\* C37: once a run has reported, the excluded, the already translated and the
\* newly translated keys are pairwise disjoint and are original keys, the merged
\* output has as many entries as the three together, and the report's
\* successfulNewTranslations is the number of new translations in the output.
C37_SourcesDisjoint ==
  pc \in {"reported", "exited"} =>
    LET ex == KeysOf(excludedByKey)
        al == KeysOf(alreadyTranslated)
        nw == NewTranslationKeys
    IN /\ ex \cap al = {} /\ ex \cap nw = {} /\ al \cap nw = {}
       /\ (ex \cup al \cup nw) \subseteq SeqRange(originalKeys)
       /\ report.finalResultEntries = Len(finalResult)
       /\ Len(finalResult) = Cardinality(ex) + Cardinality(al) + Cardinality(nw)
       /\ report.successfulNewTranslations =
            Cardinality({k \in KeysOf(finalResult) : k \in nw})
C37_Witness ==
  /\ pc = "reported"
  /\ Len(excludedByKey) = 1 /\ Len(alreadyTranslated) = 1
  /\ report.successfulNewTranslations = 1
  /\ report.finalResultEntries = 3

\* The outcomes of a run that are not marked skipped.
AttemptedOutcomes ==
  SeqRange(successful) \cup {failed[i] : i \in {j \in 1..Len(failed) : ~failed[j].skipped}}

\* C38: every outcome that is not marked skipped reports a number of attempts
\* between 1 and maxRetries, equal to the number of remote calls made for its
\* batch.
C38_AttemptsCountCalls ==
  \A outcome \in AttemptedOutcomes :
    /\ 1 <= outcome.attempts /\ outcome.attempts <= config.maxRetries
    /\ outcome.attempts = calls[outcome.batchId]

\* C39: createBatches terminates for every input and every integer batchSize:
\* each pass of its loop moves the index i towards entries.length, so the loop
\* is left after finitely many passes and the list of batches is returned.
C39_CreateBatchesTerminates ==
  [][(pc = "batching" /\ pc' = "batching") => loopIdx' > loopIdx]_vars

=============================================================================
